---- MODULE Spec2Model ----
(***************************************************************************)
(* A model of ocean_lib's compute-job lifecycle client (OceanCompute) and  *)
(* of the dispenser value objects (DispenserArguments, DispenserStatus).   *)
(*                                                                         *)
(* Python values are tagged records: None, str, int, dict, list and plain  *)
(* objects, so that truthiness and isinstance are computed as Python does. *)
(***************************************************************************)
EXTENDS Integers, Sequences, FiniteSets, TLC

VARIABLES
    ConfigProvider_config,  \* the process-wide configuration ConfigProvider holds
    self_config,            \* OceanCompute._config, injected at construction
    metadata_store,         \* did -> the asset document the metadata store serves
    last,                   \* the record of the lifecycle call that ran last
    checked,                \* the record of the check_output_dict call that ran last
    heap,                   \* the mutable objects of the process, by identity
    calls,                  \* the check_output_dict calls made on heap objects
    mutated,                \* the objects the caller wrote to after a call returned
    instance,               \* the dispenser value object constructed last
    returned                \* what the last method called on instance returned

compute_vars == <<self_config, metadata_store, last>>
output_vars == <<checked>>
heap_vars == <<heap, calls, mutated>>
dispenser_vars == <<instance, returned>>

vars == <<ConfigProvider_config, self_config, metadata_store, last, checked,
          heap, calls, mutated, instance, returned>>

----------------------------------------------------------------------------
(* Python values *)

PyNone == [kind |-> "None"]
PyBool(b) == [kind |-> "bool", b |-> b]
PyStr(s) == [kind |-> "str", s |-> s]
PyInt(n) == [kind |-> "int", n |-> n]
PyDict(f) == [kind |-> "dict", items |-> f]
PyList(s) == [kind |-> "list", elems |-> s]
PyObject(name) == [kind |-> "object", class |-> name]

\* Python's truth value of x, as used by `assert a or b` and `if not x`
Truthy(x) ==
    CASE x.kind = "None" -> FALSE
      [] x.kind = "bool" -> x.b
      [] x.kind = "str"  -> x.s # ""
      [] x.kind = "int"  -> x.n # 0
      [] x.kind = "dict" -> DOMAIN x.items # {}
      [] x.kind = "list" -> Len(x.elems) > 0
      [] OTHER           -> TRUE

\* `a or b`: a when a is truthy, b otherwise
PyOr(a, b) == IF Truthy(a) THEN a ELSE b

\* dict.update: the keys of other overwrite those of d, the rest of d is kept
DictUpdate(d, other) ==
    [k \in DOMAIN d \cup DOMAIN other |-> IF k \in DOMAIN other THEN other[k] ELSE d[k]]

\* dict.get(key, default)
DictGet(d, key, default) == IF key \in DOMAIN d THEN d[key] ELSE default

EmptyDict == [k \in {} |-> PyNone]

----------------------------------------------------------------------------
(* The collaborators' values *)

ConfigA ==
    [kind |-> "Config",
     network_url |-> PyStr("http://node-A"),
     provider_url |-> PyStr("http://provider-A"),
     provider_address |-> PyStr("0xProviderA"),
     aquarius_url |-> PyStr("http://aquarius-A")]

ConfigB ==
    [kind |-> "Config",
     network_url |-> PyStr("http://node-B"),
     provider_url |-> PyStr("http://provider-B"),
     provider_address |-> PyStr("0xProviderB"),
     aquarius_url |-> PyStr("http://aquarius-B")]

Configs == {ConfigA, ConfigB}

Dids == {"did:op:data"}
Accounts == {[kind |-> "Account", address |-> "0xConsumer"]}
TransferTxIds == {"0xtx"}
JobIds == {"job-1"}
AlgorithmDids == {PyNone, PyStr(""), PyStr("did:op:algo")}
AlgorithmMetas == {PyNone, PyObject("AlgorithmMetadata")}
Outputs ==
    {PyNone,
     PyDict([publishOutput |-> PyInt(1), nodeUri |-> PyStr("http://my-node")])}
ServiceEndpoints == {"http://compute-1", "http://compute-2"}

Asset(did, endpoint) ==
    [kind |-> "Asset", did |-> did, service_endpoint |-> endpoint,
     index |-> 4, data_token_address |-> "0xDataToken"]

\* ConfigProvider.get_config()
ConfigProvider_get_config == ConfigProvider_config

\* data_provider.get_url(config)
get_url(config) == config.provider_url

----------------------------------------------------------------------------
(* OceanCompute: the pure helpers *)

FailedStatuses == {31, 32}

status_from_job_info_one_code(job_info) ==
    [ok |-> job_info["status"] # 31,
     status |-> job_info["status"],
     statusText |-> job_info["statusText"]]

status_from_job_info(job_info) ==
    [ok |-> job_info["status"] \notin FailedStatuses,
     status |-> job_info["status"],
     statusText |-> job_info["statusText"]]

check_output_dict_defaults_win(output_def, consumer_account, config, metadata, whitelist) ==
    LET cfg == IF ~Truthy(config) THEN ConfigProvider_get_config ELSE config
        default_output_def ==
            [nodeUri |-> cfg.network_url,
             brizoUri |-> get_url(cfg),
             brizoAddress |-> cfg.provider_address,
             metadata |-> metadata,
             metadataUri |-> cfg.aquarius_url,
             owner |-> PyStr(consumer_account.address),
             publishOutput |-> PyInt(0),
             publishAlgorithmLog |-> PyInt(0),
             whitelist |-> whitelist]
        given == IF output_def.kind = "dict" THEN output_def.items ELSE EmptyDict
    IN  PyDict(DictUpdate(given, default_output_def))

\* metadata and whitelist are the objects `dict()` and `[]` create in this call
check_output_dict(output_def, consumer_account, config, metadata, whitelist) ==
    LET cfg == IF ~Truthy(config) THEN ConfigProvider_get_config ELSE config
        default_output_def ==
            [nodeUri |-> cfg.network_url,
             brizoUri |-> get_url(cfg),
             brizoAddress |-> cfg.provider_address,
             metadata |-> metadata,
             metadataUri |-> cfg.aquarius_url,
             owner |-> PyStr(consumer_account.address),
             publishOutput |-> PyInt(0),
             publishAlgorithmLog |-> PyInt(0),
             whitelist |-> whitelist]
        given == IF output_def.kind = "dict" THEN output_def.items ELSE EmptyDict
    IN  PyDict(DictUpdate(default_output_def, given))

----------------------------------------------------------------------------
(* The external calls a lifecycle call makes, in order, as events *)

EvResolve(did, url, result) ==
    [ev |-> "resolve_asset", did |-> did, metadata_store_url |-> url, result |-> result]
EvAuth(account) == [ev |-> "auth_get", address |-> account.address]
EvRequest(method, payload) == [ev |-> "request", method |-> method, payload |-> payload]

\* what the collaborators do in one call: whether the metadata store, the auth
\* token lookup and the provider answer or raise, and the provider's answer
Envs(responses) ==
    [resolve_ok : {TRUE}, auth_ok : {TRUE}, provider_ok : {TRUE}, job_info : responses]
    \cup {e \in [resolve_ok : BOOLEAN, auth_ok : BOOLEAN, provider_ok : BOOLEAN,
                  job_info : {EmptyDict}] :
             ~(e.resolve_ok /\ e.auth_ok /\ e.provider_ok)}

\* resolve_asset(did, metadata_store_url)
resolve_asset(did, metadata_store_url, env) ==
    IF env.resolve_ok
    THEN [events |-> <<EvResolve(did, metadata_store_url, metadata_store[did])>>,
          raised |-> FALSE, asset |-> metadata_store[did]]
    ELSE [events |-> <<EvResolve(did, metadata_store_url, PyNone)>>,
          raised |-> TRUE, asset |-> PyNone]

\* self._auth.get(account)
auth_get(account, env) ==
    [events |-> <<EvAuth(account)>>, raised |-> ~env.auth_ok,
     token |-> IF env.auth_ok THEN "token" ELSE ""]

\* a method of self._data_provider
provider_call(method, payload, env) ==
    [events |-> <<EvRequest(method, payload)>>, raised |-> ~env.provider_ok,
     job_info |-> IF env.provider_ok THEN env.job_info ELSE EmptyDict]

get_service_endpoint_always_resolves(did, asset, env) ==
    LET r == resolve_asset(did, self_config.aquarius_url, env)
    IN  [events |-> r.events, raised |-> r.raised,
         service_endpoint |-> IF r.raised THEN "" ELSE r.asset.service_endpoint]

get_service_endpoint(did, asset, env) ==
    LET r == IF ~Truthy(asset)
             THEN resolve_asset(did, self_config.aquarius_url, env)
             ELSE [events |-> <<>>, raised |-> FALSE, asset |-> asset]
    IN  [events |-> r.events, raised |-> r.raised,
         service_endpoint |-> IF r.raised THEN "" ELSE r.asset.service_endpoint]

\* the outcome of a call: what it did, how it ended, what it returned
Raised(error, events) ==
    [events |-> events, outcome |-> error, ret |-> PyNone, response |-> EmptyDict]
Returned(events, ret, response) ==
    [events |-> events, outcome |-> "returned", ret |-> ret, response |-> response]

----------------------------------------------------------------------------
(* OceanCompute: the lifecycle calls *)

start_precondition_dropped(algorithm_did, algorithm_meta) == TRUE

start_precondition_exactly_one(algorithm_did, algorithm_meta) ==
    Truthy(algorithm_did) # Truthy(algorithm_meta)

\* `assert algorithm_did or algorithm_meta`
start_precondition(algorithm_did, algorithm_meta) ==
    Truthy(PyOr(algorithm_did, algorithm_meta))

start_call(did, consumer_account, transfer_tx_id, algorithm_did, algorithm_meta, output, job_id, env) ==
    IF ~start_precondition(algorithm_did, algorithm_meta)
    THEN Raised("AssertionError", <<>>)
    ELSE
    LET out == check_output_dict(output, consumer_account, PyNone,
                                 PyDict(EmptyDict), PyList(<<>>))
        res == resolve_asset(did, self_config.aquarius_url, env)
    IN  IF res.raised THEN Raised("ResolveError", res.events)
        ELSE
        LET asset == res.asset
            ep == get_service_endpoint(did, asset, env)
            ev1 == res.events \o ep.events
        IN  IF ep.raised THEN Raised("ResolveError", ev1)
            ELSE
            LET auth == auth_get(consumer_account, env)
                ev2 == ev1 \o auth.events
            IN  IF auth.raised THEN Raised("AuthError", ev2)
                ELSE
                LET req == provider_call("start_compute_job",
                               [did |-> did,
                                service_endpoint |-> ep.service_endpoint,
                                address |-> consumer_account.address,
                                token |-> auth.token,
                                index |-> asset.index,
                                data_token_address |-> asset.data_token_address,
                                tx_id |-> transfer_tx_id,
                                algorithm_did |-> algorithm_did,
                                algorithm_meta |-> algorithm_meta,
                                output |-> out,
                                job_id |-> job_id], env)
                    ev3 == ev2 \o req.events
                IN  IF req.raised THEN Raised("ProviderError", ev3)
                    ELSE Returned(ev3, PyStr(req.job_info["jobId"]), req.job_info)

\* the request status, result, stop, restart and delete share: the arguments are
\* evaluated left to right, the endpoint before the auth token, then the call
job_call(method, did, job_id, account, env) ==
    LET ep == get_service_endpoint(did, PyNone, env)
    IN  IF ep.raised THEN Raised("ResolveError", ep.events)
        ELSE
        LET auth == auth_get(account, env)
            ev2 == ep.events \o auth.events
        IN  IF auth.raised THEN Raised("AuthError", ev2)
            ELSE
            LET req == provider_call(method,
                           [did |-> did,
                            job_id |-> job_id,
                            service_endpoint |-> ep.service_endpoint,
                            address |-> account.address,
                            token |-> auth.token], env)
                ev3 == ev2 \o req.events
            IN  IF req.raised THEN Raised("ProviderError", ev3)
                ELSE Returned(ev3, PyNone, req.job_info)

status_call(did, job_id, account, env) ==
    LET call == job_call("compute_job_status", did, job_id, account, env)
    IN  IF call.outcome = "returned"
        THEN [call EXCEPT !.ret = status_from_job_info(call.response)]
        ELSE call

result_from_info_dict_no_default(info_dict) ==
    [did |-> DictGet(info_dict, "resultsDid", PyStr("")),
     urls |-> DictGet(info_dict, "resultsUrls", PyNone),
     logs |-> DictGet(info_dict, "algorithmLogUrl", PyList(<<>>))]

result_from_info_dict(info_dict) ==
    [did |-> DictGet(info_dict, "resultsDid", PyStr("")),
     urls |-> DictGet(info_dict, "resultsUrls", PyList(<<>>)),
     logs |-> DictGet(info_dict, "algorithmLogUrl", PyList(<<>>))]

result_call(did, job_id, account, env) ==
    LET call == job_call("compute_job_result", did, job_id, account, env)
    IN  IF call.outcome = "returned"
        THEN [call EXCEPT !.ret = result_from_info_dict(call.response)]
        ELSE call

stop_call(did, job_id, account, env) ==
    LET call == job_call("stop_compute_job", did, job_id, account, env)
    IN  IF call.outcome = "returned"
        THEN [call EXCEPT !.ret = status_from_job_info(call.response)]
        ELSE call

restart_call(did, job_id, account, env) ==
    LET call == job_call("restart_compute_job", did, job_id, account, env)
    IN  IF call.outcome = "returned"
        THEN [call EXCEPT !.ret = status_from_job_info(call.response)]
        ELSE call

delete_call(did, job_id, account, env) ==
    LET call == job_call("delete_compute_job", did, job_id, account, env)
    IN  IF call.outcome = "returned"
        THEN [call EXCEPT !.ret = status_from_job_info(call.response)]
        ELSE call

----------------------------------------------------------------------------
(* The provider's answers *)

StatusCodes == {0 - 1, 1, 31, 32, 99}
StatusTexts == {"text-a", "text-b"}

\* a status answer carries status and statusText, and may carry more
StatusResponses ==
    {[status |-> s, statusText |-> t] : s \in StatusCodes, t \in StatusTexts}
    \cup {[status |-> s, statusText |-> "text-a", owner |-> "0xConsumer"] : s \in StatusCodes}

ResultFields ==
    [resultsDid |-> PyStr("did:op:result"),
     resultsUrls |-> PyList(<<"http://result-1", "http://result-2">>),
     algorithmLogUrl |-> PyList(<<"http://log-1">>)]

\* a result answer carries any subset of the three fields
ResultResponses ==
    {[k \in present |-> ResultFields[k]] : present \in SUBSET DOMAIN ResultFields}

StartResponses == {[jobId |-> "job-7"], [jobId |-> "job-8"]}

----------------------------------------------------------------------------
(* The client in its process: lifecycle calls, and what changes around them *)

NoCall == [op |-> "none", args |-> EmptyDict, events |-> <<>>, outcome |-> "none",
           ret |-> PyNone, response |-> EmptyDict]

\* the parts of the process a specification does not exercise stay as they are
IdleCompute ==
    /\ self_config = ConfigA
    /\ metadata_store = [d \in Dids |-> Asset(d, "http://compute-1")]
    /\ last = NoCall
IdleOutput == checked = PyNone
IdleHeap == heap = <<>> /\ calls = <<>> /\ mutated = {}
IdleDispenser == instance = PyNone /\ returned = PyNone

Call(op, args, r) ==
    [op |-> op, args |-> args, events |-> r.events, outcome |-> r.outcome,
     ret |-> r.ret, response |-> r.response]

RequestsOf(call) == SelectSeq(call.events, LAMBDA e : e.ev = "request")
ResolutionsOf(call) == SelectSeq(call.events, LAMBDA e : e.ev = "resolve_asset")
AuthLookupsOf(call) == SelectSeq(call.events, LAMBDA e : e.ev = "auth_get")

InitCompute ==
    /\ ConfigProvider_config \in Configs
    /\ self_config \in Configs
    /\ metadata_store \in [Dids -> {Asset(d, e) : d \in Dids, e \in ServiceEndpoints}]
    /\ \A d \in Dids : metadata_store[d].did = d
    /\ last = NoCall
    /\ IdleOutput /\ IdleHeap /\ IdleDispenser

\* ConfigProvider.set_config(config), anywhere in the process
set_config ==
    /\ \E c \in Configs : ConfigProvider_config' = c
    /\ UNCHANGED <<compute_vars, output_vars, heap_vars, dispenser_vars>>

\* the asset's owner publishes a new service endpoint for it
publish_asset ==
    /\ \E d \in Dids, e \in ServiceEndpoints :
           metadata_store' = [metadata_store EXCEPT ![d] = Asset(d, e)]
    /\ UNCHANGED <<ConfigProvider_config, self_config, last>>
    /\ UNCHANGED <<output_vars, heap_vars, dispenser_vars>>

start ==
    /\ \E did \in Dids, consumer_account \in Accounts, transfer_tx_id \in TransferTxIds,
          algorithm_did \in AlgorithmDids, algorithm_meta \in AlgorithmMetas,
          output \in Outputs, job_id \in {PyNone} \cup {PyStr(j) : j \in JobIds},
          env \in Envs(StartResponses) :
           last' = Call("start",
                        [did |-> did, consumer_account |-> consumer_account,
                         transfer_tx_id |-> transfer_tx_id,
                         algorithm_did |-> algorithm_did,
                         algorithm_meta |-> algorithm_meta,
                         output |-> output, job_id |-> job_id],
                        start_call(did, consumer_account, transfer_tx_id, algorithm_did,
                                   algorithm_meta, output, job_id, env))
    /\ UNCHANGED <<ConfigProvider_config, self_config, metadata_store>>
    /\ UNCHANGED <<output_vars, heap_vars, dispenser_vars>>

JobArgs(did, job_id, account) == [did |-> did, job_id |-> job_id, account |-> account]

status ==
    /\ \E did \in Dids, job_id \in JobIds, account \in Accounts, env \in Envs(StatusResponses) :
           last' = Call("status", JobArgs(did, job_id, account),
                        status_call(did, job_id, account, env))
    /\ UNCHANGED <<ConfigProvider_config, self_config, metadata_store>>
    /\ UNCHANGED <<output_vars, heap_vars, dispenser_vars>>

result ==
    /\ \E did \in Dids, job_id \in JobIds, account \in Accounts, env \in Envs(ResultResponses) :
           last' = Call("result", JobArgs(did, job_id, account),
                        result_call(did, job_id, account, env))
    /\ UNCHANGED <<ConfigProvider_config, self_config, metadata_store>>
    /\ UNCHANGED <<output_vars, heap_vars, dispenser_vars>>

stop ==
    /\ \E did \in Dids, job_id \in JobIds, account \in Accounts, env \in Envs(StatusResponses) :
           last' = Call("stop", JobArgs(did, job_id, account),
                        stop_call(did, job_id, account, env))
    /\ UNCHANGED <<ConfigProvider_config, self_config, metadata_store>>
    /\ UNCHANGED <<output_vars, heap_vars, dispenser_vars>>

restart ==
    /\ \E did \in Dids, job_id \in JobIds, account \in Accounts, env \in Envs(StatusResponses) :
           last' = Call("restart", JobArgs(did, job_id, account),
                        restart_call(did, job_id, account, env))
    /\ UNCHANGED <<ConfigProvider_config, self_config, metadata_store>>
    /\ UNCHANGED <<output_vars, heap_vars, dispenser_vars>>

delete ==
    /\ \E did \in Dids, job_id \in JobIds, account \in Accounts, env \in Envs(StatusResponses) :
           last' = Call("delete", JobArgs(did, job_id, account),
                        delete_call(did, job_id, account, env))
    /\ UNCHANGED <<ConfigProvider_config, self_config, metadata_store>>
    /\ UNCHANGED <<output_vars, heap_vars, dispenser_vars>>

NextCompute ==
    \/ set_config
    \/ publish_asset
    \/ start
    \/ status
    \/ result
    \/ stop
    \/ restart
    \/ delete

SpecCompute == InitCompute /\ [][NextCompute]_vars

----------------------------------------------------------------------------
(* Claims about the lifecycle client *)

StartCalled == last.op = "start"
RequestSent == Len(RequestsOf(last)) > 0
TheRequest == RequestsOf(last)[1]

\* C1: start with algorithm_did and algorithm_meta both empty fails its
\* precondition at once: no asset resolution, no auth-token lookup, no request to
\* the provider, and nothing returned.
C1_StartWithoutAlgorithmFailsFast ==
    (StartCalled /\ ~Truthy(last.args.algorithm_did) /\ ~Truthy(last.args.algorithm_meta))
    => /\ last.outcome = "AssertionError"
       /\ last.events = <<>>
       /\ last.ret = PyNone

C1_Witness ==
    /\ StartCalled
    /\ last.args.algorithm_did = PyNone
    /\ last.args.algorithm_meta = PyNone
    /\ last.outcome = "AssertionError"

\* C2 as stated: a start_compute_job request reaches the provider only when
\* exactly one of algorithm_did / algorithm_meta is supplied, and a call that
\* supplies both is rejected with no request sent.
C2_ExactlyOneAlgorithmReference ==
    StartCalled =>
       /\ RequestSent =>
             (Truthy(last.args.algorithm_did) # Truthy(last.args.algorithm_meta))
       /\ (Truthy(last.args.algorithm_did) /\ Truthy(last.args.algorithm_meta)) =>
             (last.outcome = "AssertionError" /\ ~RequestSent)

\* C2 amended: a request reaches the provider only when at least one of the two
\* is supplied; a call that supplies both passes the precondition and, when the
\* collaborators answer, sends one request that carries both references.
C2_AtLeastOneAlgorithmReference ==
    StartCalled =>
       /\ RequestSent =>
             (Truthy(last.args.algorithm_did) \/ Truthy(last.args.algorithm_meta))
       /\ (Truthy(last.args.algorithm_did) /\ Truthy(last.args.algorithm_meta)) =>
             /\ last.outcome # "AssertionError"
             /\ Len(ResolutionsOf(last)) = 1
             /\ last.outcome = "returned" =>
                   /\ Len(RequestsOf(last)) = 1
                   /\ TheRequest.payload.algorithm_did = last.args.algorithm_did
                   /\ TheRequest.payload.algorithm_meta = last.args.algorithm_meta

C2_Witness ==
    /\ StartCalled
    /\ Truthy(last.args.algorithm_did)
    /\ Truthy(last.args.algorithm_meta)
    /\ last.outcome = "returned"
    /\ RequestSent
    /\ TheRequest.method = "start_compute_job"

\* C3: status, stop, restart and delete return {ok, status, statusText} with the
\* provider's status and statusText, ok being false exactly for the codes 31 and 32.
C3_StatusNormalization ==
    (last.op \in {"status", "stop", "restart", "delete"} /\ last.outcome = "returned")
    => /\ DOMAIN last.ret = {"ok", "status", "statusText"}
       /\ last.ret.status = last.response["status"]
       /\ last.ret.statusText = last.response["statusText"]
       /\ last.ret.ok = ~(last.response["status"] = 31 \/ last.response["status"] = 32)

C3_Witness ==
    /\ last.op = "restart"
    /\ last.outcome = "returned"
    /\ last.response["status"] = 32
    /\ last.ret.ok = FALSE

\* C4: result returns {did, urls, logs} for every subset of the three fields the
\* provider's answer carries: a field present is passed through, an absent one is
\* "" (did) or the empty sequence (urls, logs), and the call does not fail.
C4_ResultDefaults ==
    (last.op = "result" /\ RequestSent /\ last.outcome # "ProviderError")
    => /\ last.outcome = "returned"
       /\ DOMAIN last.ret = {"did", "urls", "logs"}
       /\ last.ret.did = IF "resultsDid" \in DOMAIN last.response
                          THEN last.response["resultsDid"] ELSE PyStr("")
       /\ last.ret.urls = IF "resultsUrls" \in DOMAIN last.response
                           THEN last.response["resultsUrls"] ELSE PyList(<<>>)
       /\ last.ret.logs = IF "algorithmLogUrl" \in DOMAIN last.response
                           THEN last.response["algorithmLogUrl"] ELSE PyList(<<>>)

C4_Witness ==
    /\ last.op = "result"
    /\ last.outcome = "returned"
    /\ DOMAIN last.response = {"resultsDid"}
    /\ last.ret.urls = PyList(<<>>)
    /\ last.ret.logs = PyList(<<>>)

\* C6: two runs of start with the same arguments, the same injected
\* configuration and the same asset and provider answers send the same
\* start_compute_job request, whatever ConfigProvider holds.
C6_RequestIndependentOfConfigProvider ==
    [][(/\ last.op = "start" /\ last'.op = "start"
        /\ last'.args = last.args
        /\ self_config' = self_config
        /\ ResolutionsOf(last') = ResolutionsOf(last)
        /\ AuthLookupsOf(last') = AuthLookupsOf(last)
        /\ Len(RequestsOf(last)) = 1 /\ Len(RequestsOf(last')) = 1)
       => RequestsOf(last')[1] = RequestsOf(last)[1]]_vars

MethodOf(op) ==
    CASE op = "start"   -> "start_compute_job"
      [] op = "status"  -> "compute_job_status"
      [] op = "result"  -> "compute_job_result"
      [] op = "stop"    -> "stop_compute_job"
      [] op = "restart" -> "restart_compute_job"
      [] op = "delete"  -> "delete_compute_job"

\* what C7 says of the call recorded in last
OneResolutionOneRequest ==
    (last.op # "none" /\ last.outcome # "AssertionError")
    => /\ Len(ResolutionsOf(last)) = 1
       /\ last.events[1].ev = "resolve_asset"
       /\ last.events[1].metadata_store_url = self_config.aquarius_url
       /\ Len(RequestsOf(last)) <= 1
       /\ last.outcome = "ResolveError" => Len(last.events) = 1
       /\ last.outcome = "AuthError" => ~RequestSent
       /\ last.outcome \in {"returned", "ProviderError"} => Len(RequestsOf(last)) = 1
       /\ RequestSent =>
             /\ last.events[Len(last.events)] = TheRequest
             /\ TheRequest.method = MethodOf(last.op)
             /\ TheRequest.payload.service_endpoint = last.events[1].result.service_endpoint
             /\ TheRequest.payload.service_endpoint
                   = metadata_store[last.args.did].service_endpoint
       /\ last.outcome # "returned" => last.ret = PyNone

\* C7: a lifecycle call that passes its precondition resolves the asset exactly
\* once, first, and then sends at most one request, to the operation matching the
\* call and to the endpoint the metadata store serves for the asset during this
\* call; the request is sent exactly once unless the resolution or the auth lookup
\* raised, and an error of the resolution or of the request ends the call with
\* nothing further sent.
C7_OneResolutionOneRequest ==
    [][last' # last => OneResolutionOneRequest']_vars

C7_Witness ==
    /\ last.op = "start"
    /\ last.outcome = "ProviderError"
    /\ Len(ResolutionsOf(last)) = 1
    /\ TheRequest.payload.service_endpoint = "http://compute-2"

----------------------------------------------------------------------------
(* check_output_dict on values: the merge of the caller's options into the defaults *)

ConsumerAccounts ==
    {[kind |-> "Account", address |-> "0xConsumer"],
     [kind |-> "Account", address |-> "0xOther"]}

\* what a caller may put under each key it supplies
CallerValues ==
    [nodeUri |-> PyStr("http://my-node"),
     owner |-> PyStr("0xSomeoneElse"),
     publishOutput |-> PyInt(1),
     metadata |-> PyDict([name |-> PyStr("my output")]),
     whitelist |-> PyList(<<"0xFriend">>),
     secretStoreUri |-> PyStr("http://my-secret-store")]

OutputDefs ==
    {PyNone, PyStr("publishOutput"), PyList(<<"publishOutput">>)}
    \cup {PyDict([k \in keys |-> CallerValues[k]]) : keys \in SUBSET DOMAIN CallerValues}

InitOutput ==
    /\ ConfigProvider_config \in Configs
    /\ checked = PyNone
    /\ IdleCompute /\ IdleHeap /\ IdleDispenser

check_output ==
    /\ \E output_def \in OutputDefs, consumer_account \in ConsumerAccounts,
          config \in {PyNone} \cup Configs :
           checked' = [kind |-> "call",
                       output_def |-> output_def,
                       consumer_account |-> consumer_account,
                       config |-> config,
                       process_config |-> ConfigProvider_config,
                       ret |-> check_output_dict(output_def, consumer_account, config,
                                                 PyDict(EmptyDict), PyList(<<>>))]
    /\ UNCHANGED <<ConfigProvider_config, compute_vars, heap_vars, dispenser_vars>>

NextOutput ==
    \/ set_config
    \/ check_output

SpecOutput == InitOutput /\ [][NextOutput]_vars

DefaultKeys ==
    {"nodeUri", "brizoUri", "brizoAddress", "metadata", "metadataUri", "owner",
     "publishOutput", "publishAlgorithmLog", "whitelist"}

\* the configuration the defaults of the checked call come from: the one passed,
\* or the process-wide one when none was passed
ConfigInEffect ==
    IF checked.config = PyNone THEN checked.process_config ELSE checked.config

\* the default of key k, as section 4.4 of the specification lists them
ExpectedDefault(k) ==
    CASE k = "nodeUri"             -> ConfigInEffect.network_url
      [] k = "brizoUri"            -> ConfigInEffect.provider_url
      [] k = "brizoAddress"        -> ConfigInEffect.provider_address
      [] k = "metadataUri"         -> ConfigInEffect.aquarius_url
      [] k = "owner"               -> PyStr(checked.consumer_account.address)
      [] k = "metadata"            -> PyDict(EmptyDict)
      [] k = "publishOutput"       -> PyInt(0)
      [] k = "publishAlgorithmLog" -> PyInt(0)
      [] k = "whitelist"           -> PyList(<<>>)

\* C5: the result of check_output_dict maps every key of the caller's mapping to
\* the caller's value and every one of the nine default keys the caller left out
\* to its default, and holds nothing else; for an output that is no mapping the
\* result is the nine defaults.
C5_ShallowMerge ==
    checked # PyNone =>
       LET m == IF checked.output_def.kind = "dict"
                THEN checked.output_def.items ELSE EmptyDict
           r == checked.ret
       IN  /\ r.kind = "dict"
           /\ DOMAIN r.items = DOMAIN m \cup DefaultKeys
           /\ \A k \in DOMAIN m : r.items[k] = m[k]
           /\ \A k \in DefaultKeys \ DOMAIN m : r.items[k] = ExpectedDefault(k)
           /\ checked.output_def.kind # "dict" =>
                 r.items = [k \in DefaultKeys |-> ExpectedDefault(k)]

C5_Witness ==
    /\ checked # PyNone
    /\ checked.output_def = PyDict([publishOutput |-> PyInt(1),
                                     metadata |-> PyDict([name |-> PyStr("my output")])])
    /\ checked.config = PyNone
    /\ checked.ret.items["publishOutput"] = PyInt(1)
    /\ checked.ret.items["publishAlgorithmLog"] = PyInt(0)
    /\ checked.ret.items["metadata"] = PyDict([name |-> PyStr("my output")])
    /\ checked.ret.items["owner"] = PyStr(checked.consumer_account.address)

----------------------------------------------------------------------------
(* Addresses and numbers of the dispenser contract *)

\* A str as the sequence of its characters, where the characters matter
PyChars(c) == [kind |-> "str", chars |-> c]

\* An unsigned 256-bit number, as 16 limbs of 16 bits, the least significant first
PyUInt(limbs) == [kind |-> "int", limbs |-> limbs]
UInt(n) == PyUInt([i \in 1..16 |-> IF i = 1 THEN n ELSE 0])

AddressDigits == 2
HexDigits == {"0", "a", "A"}

\* "0x" or "0X", then AddressDigits hex digits in either letter case
Addresses ==
    {<<"0", x>> \o d : x \in {"x", "X"}, d \in [1..AddressDigits -> HexDigits]}

\* str.lower, character by character
LowerChar(c) == CASE c = "A" -> "a" [] c = "X" -> "x" [] OTHER -> c
Lower(chars) == [i \in 1..Len(chars) |-> LowerChar(chars[i])]

ZERO_ADDRESS == PyChars(<<"0", "x">> \o [i \in 1..AddressDigits |-> "0"])
MAX_UINT256 == PyUInt([i \in 1..16 |-> 65535])

\* ContractBase.to_checksum_address accepts a hex address in any letter case
is_address(x) == x.kind = "str" /\ x.chars \in Addresses

\* The checksummed form: the lower-case address with the letters upper-cased that
\* a hash of the lower-case address selects. The hash is Keccak-256 in the code;
\* here it is the number of letters of the address, which like it depends on the
\* lower-case address alone.
ChecksumHash(low) == Cardinality({i \in 1..Len(low) : low[i] = "a"})
to_checksum_address(address) ==
    LET low == Lower(address.chars)
    IN  PyChars([i \in 1..Len(low) |->
                   IF low[i] = "a" /\ (i + ChecksumHash(low)) % 2 = 0 THEN "A" ELSE low[i]])

\* get_address_of_type(config_dict, "Dispenser")
get_address_of_type(config_dict, contract_type) == config_dict[contract_type]

----------------------------------------------------------------------------
(* DispenserArguments *)

\* a parameter the caller leaves out takes its default
Omitted == [kind |-> "omitted"]
Default(arg, default) == IF arg = Omitted THEN default ELSE arg

DispenserArguments_init(max_tokens, max_balance, with_mint, allowed_swapper) ==
    [max_tokens |-> Default(max_tokens, MAX_UINT256),
     max_balance |-> Default(max_balance, MAX_UINT256),
     with_mint |-> Default(with_mint, PyBool(TRUE)),
     allowed_swapper |-> to_checksum_address(Default(allowed_swapper, ZERO_ADDRESS))]

to_tuple_swapped(self, config_dict) ==
    LET dispenser_address == get_address_of_type(config_dict, "Dispenser")
    IN  [self |-> self,
         ret |-> <<to_checksum_address(dispenser_address),
                   self.max_balance,
                   self.max_tokens,
                   self.with_mint,
                   self.allowed_swapper>>]

\* the object after the call, and the tuple returned
to_tuple(self, config_dict) ==
    LET dispenser_address == get_address_of_type(config_dict, "Dispenser")
    IN  [self |-> self,
         ret |-> <<to_checksum_address(dispenser_address),
                   self.max_tokens,
                   self.max_balance,
                   self.with_mint,
                   self.allowed_swapper>>]

----------------------------------------------------------------------------
(* DispenserStatus *)

DispenserStatus_init(status_tup) ==
    LET t == status_tup
    IN  [active |-> t[1],
         owner_address |-> t[2],
         is_minter |-> t[3],
         max_tokens |-> t[4],
         max_balance |-> t[5],
         balance |-> t[6],
         allowed_swapper |-> t[7]]

\* the characters an f-string puts for a value
Format(x) ==
    CASE x.kind = "bool" -> IF x.b THEN <<"T", "r", "u", "e">> ELSE <<"F", "a", "l", "s", "e">>
      [] x.kind = "int"  -> <<ToString(x.n)>>
      [] x.kind = "str"  -> x.chars

\* from_wei(x_wei), rendered: a decimal with 18 places below the unit
from_wei_str(x_wei) == <<ToString(x_wei.n), "E", "-", "1", "8">>

strWithWei(x_wei) ==
    from_wei_str(x_wei) \o <<" ", "(">> \o Format(x_wei) \o <<" ", "w", "e", "i", ")">>

AnyoneCanRequest ==
    <<"a", "n", "y", "o", "n", "e", " ", "c", "a", "n", " ", "r", "e", "q", "u", "e", "s", "t">>

AllowedSwapperLabel ==
    <<" ", " ", "a", "l", "l", "o", "w", "e", "d", "_", "s", "w", "a", "p", "p", "e", "r", " ",
        "=", " ">>

StatusHeader(self) ==
    <<"D", "i", "s", "p", "e", "n", "s", "e", "r", "S", "t", "a", "t", "u", "s", ":", " ">>
    \o <<" ", " ", "a", "c", "t", "i", "v", "e", " ", "=", " ">>
    \o Format(self.active) \o <<"\n">>
    \o <<" ", " ", "o", "w", "n", "e", "r", "_", "a", "d", "d", "r", "e", "s", "s", " ", "=", " ">>
    \o Format(self.owner_address) \o <<"\n">>
    \o <<" ", " ", "b", "a", "l", "a", "n", "c", "e", " ", "(", "o", "f", " ", "t", "o", "k", "e",
        "n", "s", ")", " ", "=", " ">>
    \o strWithWei(self.balance) \o <<"\n">>
    \o <<" ", " ", "i", "s", "_", "m", "i", "n", "t", "e", "r", " ", "(", "c", "a", "n", " ", "m",
        "i", "n", "t", " ", "m", "o", "r", "e", " ", "t", "o", "k", "e", "n", "s", "?", ")",
        " ", "=", " ">>
    \o Format(self.is_minter) \o <<"\n">>
    \o <<" ", " ", "m", "a", "x", "_", "t", "o", "k", "e", "n", "s", " ", "(", "t", "o", " ", "d",
        "i", "s", "p", "e", "n", "s", "e", ")", " ", "=", " ">>
    \o strWithWei(self.max_tokens) \o <<"\n">>
    \o <<" ", " ", "m", "a", "x", "_", "b", "a", "l", "a", "n", "c", "e", " ", "(", "o", "f", " ",
        "r", "e", "q", "u", "e", "s", "t", "e", "r", ")", " ", "=", " ">>
    \o strWithWei(self.max_balance) \o <<"\n">>

DispenserStatus_str_case_sensitive(self) ==
    LET s == StatusHeader(self)
    IN  IF self.allowed_swapper.chars = ZERO_ADDRESS.chars
        THEN s \o AllowedSwapperLabel \o AnyoneCanRequest \o <<"\n">>
        ELSE s \o AllowedSwapperLabel \o Format(self.allowed_swapper) \o <<"\n">>

DispenserStatus_str(self) ==
    LET s == StatusHeader(self)
    IN  IF Lower(self.allowed_swapper.chars) = Lower(ZERO_ADDRESS.chars)
        THEN s \o AllowedSwapperLabel \o AnyoneCanRequest \o <<"\n">>
        ELSE s \o AllowedSwapperLabel \o Format(self.allowed_swapper) \o <<"\n">>

----------------------------------------------------------------------------
(* The dispenser value objects in use *)

OwnerAddress == PyChars(<<"0", "x">> \o [i \in 1..AddressDigits |-> "A"])

ConfigDicts ==
    {[Dispenser |-> PyChars(<<"0", "x">> \o [i \in 1..AddressDigits |-> "a"]),
      Router |-> PyChars(<<"0", "x">> \o [i \in 1..AddressDigits |-> "0"])],
     [Dispenser |-> PyChars(<<"0", "X">> \o [i \in 1..AddressDigits |-> "A"]),
      Router |-> PyChars(<<"0", "x">> \o [i \in 1..AddressDigits |-> "a"])]}

StatusTuples ==
    {<<PyBool(active), OwnerAddress, PyBool(is_minter), PyInt(9), PyInt(7), PyInt(balance),
       PyChars(allowed_swapper)>> :
        active \in BOOLEAN, is_minter \in BOOLEAN, balance \in {0, 5},
        allowed_swapper \in Addresses}

InitDispenser ==
    /\ instance = PyNone
    /\ returned = PyNone
    /\ ConfigProvider_config = ConfigA
    /\ IdleCompute /\ IdleOutput /\ IdleHeap

\* DispenserArguments(...): a malformed allowed_swapper raises and builds nothing
new_arguments ==
    /\ \E max_tokens \in {Omitted, UInt(5), PyChars(<<"7">>)},
          max_balance \in {Omitted, UInt(3)},
          with_mint \in {Omitted, PyBool(FALSE), PyNone},
          allowed_swapper \in {Omitted, PyNone} \cup {PyChars(a) : a \in Addresses} :
           instance' =
               IF is_address(Default(allowed_swapper, ZERO_ADDRESS))
               THEN [kind |-> "DispenserArguments",
                     self |-> DispenserArguments_init(max_tokens, max_balance, with_mint,
                                                      allowed_swapper),
                     given |-> [max_tokens |-> max_tokens, max_balance |-> max_balance,
                                with_mint |-> with_mint,
                                allowed_swapper |-> allowed_swapper]]
               ELSE [kind |-> "raised"]
    /\ returned' = PyNone
    /\ UNCHANGED <<ConfigProvider_config, compute_vars, output_vars, heap_vars>>

call_to_tuple ==
    /\ instance.kind = "DispenserArguments"
    /\ \E config_dict \in ConfigDicts :
           LET r == to_tuple(instance.self, config_dict)
           IN  /\ instance' = [instance EXCEPT !.self = r.self]
               /\ returned' = [kind |-> "tuple", ret |-> r.ret, config_dict |-> config_dict,
                               before |-> instance.self]
    /\ UNCHANGED <<ConfigProvider_config, compute_vars, output_vars, heap_vars>>

\* DispenserStatus(status_tup)
new_status ==
    /\ \E status_tup \in StatusTuples :
           instance' = [kind |-> "DispenserStatus",
                        self |-> DispenserStatus_init(status_tup),
                        given |-> status_tup]
    /\ returned' = PyNone
    /\ UNCHANGED <<ConfigProvider_config, compute_vars, output_vars, heap_vars>>

\* str(status)
call_str ==
    /\ instance.kind = "DispenserStatus"
    /\ returned' = [kind |-> "rendered", chars |-> DispenserStatus_str(instance.self)]
    /\ UNCHANGED <<instance, ConfigProvider_config, compute_vars, output_vars, heap_vars>>

NextDispenser ==
    \/ new_arguments
    \/ call_to_tuple
    \/ new_status
    \/ call_str

SpecDispenser == InitDispenser /\ [][NextDispenser]_vars

----------------------------------------------------------------------------
(* Claims about the dispenser value objects *)

TupleReturned == returned.kind = "tuple" /\ instance.kind = "DispenserArguments"

\* the value the caller gave for a parameter, or the default named in the claim
GivenOr(field, default) ==
    IF instance.given[field] = Omitted THEN default ELSE instance.given[field]

TwoTo256Minus1 == PyUInt([i \in 1..16 |-> 65535])

\* C8 as stated: to_tuple returns (the Dispenser address of the config, max_tokens,
\* max_balance, with_mint, allowed_swapper), each of the last four being the value
\* given at construction or else its default (2**256-1, 2**256-1, true, the zero
\* address), and leaves the arguments object unchanged.
C8_TupleOfGivenValues ==
    TupleReturned =>
       /\ Len(returned.ret) = 5
       /\ returned.ret[1] = to_checksum_address(returned.config_dict["Dispenser"])
       /\ returned.ret[2] = GivenOr("max_tokens", TwoTo256Minus1)
       /\ returned.ret[3] = GivenOr("max_balance", TwoTo256Minus1)
       /\ returned.ret[4] = GivenOr("with_mint", PyBool(TRUE))
       /\ returned.ret[5] = GivenOr("allowed_swapper", ZERO_ADDRESS)
       /\ instance.self = returned.before

\* C8 amended: as stated, except that the fifth component is the checksummed
\* form of the allowed_swapper given at construction (or of the zero address),
\* which differs from the value given wherever that was not checksummed.
C8_TupleOfNormalizedValues ==
    TupleReturned =>
       /\ Len(returned.ret) = 5
       /\ returned.ret[1] = to_checksum_address(returned.config_dict["Dispenser"])
       /\ returned.ret[2] = GivenOr("max_tokens", TwoTo256Minus1)
       /\ returned.ret[3] = GivenOr("max_balance", TwoTo256Minus1)
       /\ returned.ret[4] = GivenOr("with_mint", PyBool(TRUE))
       /\ returned.ret[5] = to_checksum_address(GivenOr("allowed_swapper", ZERO_ADDRESS))
       /\ Lower(returned.ret[5].chars) = Lower(GivenOr("allowed_swapper", ZERO_ADDRESS).chars)
       /\ instance.self = returned.before

C8_Witness ==
    /\ TupleReturned
    /\ instance.given.max_tokens = Omitted
    /\ instance.given.max_balance = UInt(3)
    /\ instance.given.with_mint = Omitted
    /\ instance.given.allowed_swapper = PyChars(<<"0", "X">> \o [i \in 1..AddressDigits |-> "a"])
    /\ returned.ret[2] = TwoTo256Minus1
    /\ returned.ret[3] = UInt(3)
    /\ returned.ret[4] = PyBool(TRUE)
    /\ returned.ret[5] # instance.given.allowed_swapper

\* whether the character sequence sub occurs in s
Contains(s, sub) ==
    \E i \in 0..(Len(s) - Len(sub)) : SubSeq(s, i + 1, i + Len(sub)) = sub

Rendered == returned.kind = "rendered" /\ instance.kind = "DispenserStatus"

\* C9: the string of a DispenserStatus contains "anyone can request" exactly when
\* the seventh element of its tuple equals the zero address up to letter case;
\* for any other seventh element the string contains that address as given.
C9_AnyoneCanRequest ==
    Rendered =>
       LET swapper == instance.given[7].chars
           is_zero == Lower(swapper) = Lower(ZERO_ADDRESS.chars)
       IN  /\ Contains(returned.chars, AnyoneCanRequest) <=> is_zero
           /\ ~is_zero => Contains(returned.chars, AllowedSwapperLabel \o swapper \o <<"\n">>)

C9_Witness ==
    /\ Rendered
    /\ instance.given[7] = PyChars(<<"0", "X">> \o [i \in 1..AddressDigits |-> "0"])
    /\ Contains(returned.chars, AnyoneCanRequest)

----------------------------------------------------------------------------
(* check_output_dict on objects: which mappings and sequences are shared *)

\* a reference to the object heap[id]; a dict's values are scalars or references
Ref(id) == [kind |-> "ref", id |-> id]

\* the value a reference stands for, with the references inside it followed
RECURSIVE Deep(_, _)
Deep(h, x) ==
    IF x.kind # "ref" THEN x
    ELSE LET o == h[x.id]
         IN  IF o.kind = "dict"
             THEN PyDict([k \in DOMAIN o.items |-> Deep(h, o.items[k])])
             ELSE o

\* the objects a value reaches
RECURSIVE Reach(_, _)
Reach(h, x) ==
    IF x.kind # "ref" THEN {}
    ELSE LET o == h[x.id]
         IN  {x.id} \cup (IF o.kind = "dict"
                          THEN UNION {Reach(h, o.items[k]) : k \in DOMAIN o.items}
                          ELSE {})

\* the argument as check_output_dict sees it: the object passed, or None
Argument(h, output_def) == IF output_def.kind = "ref" THEN h[output_def.id] ELSE output_def

check_output_dict_in_place(h, output_def, consumer_account, config) ==
    LET metadata == Len(h) + 1
        whitelist == Len(h) + 2
        merged == check_output_dict(Argument(h, output_def), consumer_account, config,
                                    Ref(metadata), Ref(whitelist))
    IN  IF output_def.kind = "ref"
        THEN [heap |-> [(h \o <<PyDict(EmptyDict), PyList(<<>>)>>)
                           EXCEPT ![output_def.id] = merged],
              ret |-> output_def]
        ELSE [heap |-> h \o <<PyDict(EmptyDict), PyList(<<>>), merged>>,
              ret |-> Ref(Len(h) + 3)]

\* the call on the heap: `dict()`, `[]` and the dict display of lines 134-144 each
\* create an object, update copies the caller's values into the last, which is returned
check_output_dict_on_heap(h, output_def, consumer_account, config) ==
    LET metadata == Len(h) + 1
        whitelist == Len(h) + 2
        default_output_def == Len(h) + 3
        merged == check_output_dict(Argument(h, output_def), consumer_account, config,
                                    Ref(metadata), Ref(whitelist))
    IN  [heap |-> h \o <<PyDict(EmptyDict), PyList(<<>>), merged>>,
         ret |-> Ref(default_output_def)]

MaxCalls == 2

\* the caller's own objects: a metadata mapping, and an output mapping holding it
CallerHeap ==
    <<PyDict([name |-> PyStr("my output")]),
      PyDict([publishOutput |-> PyInt(1), metadata |-> Ref(1)])>>
CallerOutput == Ref(2)

InitHeap ==
    /\ heap = CallerHeap
    /\ calls = <<>>
    /\ mutated = {}
    /\ ConfigProvider_config = ConfigA
    /\ IdleCompute /\ IdleOutput /\ IdleDispenser

\* check_output_dict(output, ...) with no output, the caller's mapping, or a
\* mapping an earlier call returned
check_output_on_heap ==
    /\ Len(calls) < MaxCalls
    /\ \E output_def \in {PyNone, CallerOutput} \cup {calls[i].ret : i \in 1..Len(calls)},
          consumer_account \in Accounts :
           LET r == check_output_dict_on_heap(heap, output_def, consumer_account, PyNone)
           IN  /\ heap' = r.heap
               /\ calls' = Append(calls,
                      [output_def |-> output_def,
                       ret |-> r.ret,
                       fresh |-> (Len(heap) + 1)..Len(r.heap),
                       input_reach |-> Reach(heap, output_def),
                       input_deep |-> Deep(heap, output_def),
                       ret_deep |-> Deep(r.heap, r.ret)])
    /\ UNCHANGED <<mutated, ConfigProvider_config, compute_vars, output_vars, dispenser_vars>>

\* the default objects of call i: the ones it created and its result holds
DefaultObject(i, key) ==
    LET r == heap[calls[i].ret.id]
    IN  IF key \in DOMAIN r.items /\ r.items[key].kind = "ref"
           /\ r.items[key].id \in calls[i].fresh
        THEN {r.items[key].id} ELSE {}

\* result[key] = value, on the mapping call i returned
set_result_key ==
    /\ \E i \in 1..Len(calls), key \in {"publishOutput", "note"} :
           LET id == calls[i].ret.id
           IN  /\ id \notin mutated
               /\ heap' = [heap EXCEPT ![id].items =
                              DictUpdate(@, [k \in {key} |-> PyInt(2)])]
               /\ mutated' = mutated \cup {id}
    /\ UNCHANGED <<calls, ConfigProvider_config, compute_vars, output_vars, dispenser_vars>>

\* result["metadata"]["name"] = ..., on the default metadata of call i
write_default_metadata ==
    /\ \E i \in 1..Len(calls) : \E id \in DefaultObject(i, "metadata") :
           /\ id \notin mutated
           /\ heap' = [heap EXCEPT ![id].items =
                          DictUpdate(@, [name |-> PyStr("changed")])]
           /\ mutated' = mutated \cup {id}
    /\ UNCHANGED <<calls, ConfigProvider_config, compute_vars, output_vars, dispenser_vars>>

\* result["whitelist"].append(...), on the default whitelist of call i
append_default_whitelist ==
    /\ \E i \in 1..Len(calls) : \E id \in DefaultObject(i, "whitelist") :
           /\ id \notin mutated
           /\ heap' = [heap EXCEPT ![id].elems = Append(@, "0xFriend")]
           /\ mutated' = mutated \cup {id}
    /\ UNCHANGED <<calls, ConfigProvider_config, compute_vars, output_vars, dispenser_vars>>

NextHeap ==
    \/ check_output_on_heap
    \/ set_result_key
    \/ write_default_metadata
    \/ append_default_whitelist

SpecHeap == InitHeap /\ [][NextHeap]_vars

----------------------------------------------------------------------------
(* Claims about the objects check_output_dict shares *)

CallIds == 1..Len(calls)
ReturnedMappings == {calls[i].ret.id : i \in CallIds}
\* the objects the caller may write to: the returned mappings and their defaults
OwnObjects(i) ==
    {calls[i].ret.id} \cup DefaultObject(i, "metadata") \cup DefaultObject(i, "whitelist")

\* C10 as stated: every call returns a new mapping and leaves the caller's mapping
\* as it was, and writing to a returned mapping, or to its default metadata or
\* whitelist, changes neither a caller's mapping nor what another call returned.
C10_ResultsIndependent ==
    \A j \in CallIds :
       /\ calls[j].ret.id \in calls[j].fresh
       /\ (calls[j].output_def.kind = "ref" /\ calls[j].output_def.id \notin ReturnedMappings)
             => Deep(heap, calls[j].output_def) = calls[j].input_deep
       /\ (mutated \cap calls[j].fresh = {})
             => Deep(heap, calls[j].ret) = calls[j].ret_deep

\* C10 amended: every call returns a new mapping, with a new metadata mapping and
\* a new whitelist for the keys the caller left out, and does not write to the
\* caller's mapping; the values of the keys the caller supplied are the caller's
\* own objects, so a write to a returned mapping or to its defaults changes the
\* input or the result of another call only when that call was given the written
\* object in its output.
C10_ResultsShareOnlyTheirInput ==
    \A j \in CallIds :
       /\ calls[j].ret.id \in calls[j].fresh
       /\ \A i \in CallIds : i # j => calls[i].fresh \cap calls[j].fresh = {}
       /\ calls[j].fresh \cap calls[j].input_reach = {}
       /\ Reach(heap, calls[j].ret) \subseteq calls[j].fresh \cup calls[j].input_reach
       /\ (mutated \cap calls[j].input_reach = {})
             => Deep(heap, calls[j].output_def) = calls[j].input_deep
       /\ (mutated \cap (calls[j].fresh \cup calls[j].input_reach) = {})
             => Deep(heap, calls[j].ret) = calls[j].ret_deep

C10_Witness ==
    /\ Len(calls) = 2
    /\ calls[1].output_def = CallerOutput
    /\ calls[2].output_def = CallerOutput
    /\ mutated = OwnObjects(1)
    /\ DefaultObject(1, "whitelist") # {}
    /\ Deep(heap, calls[1].ret) # calls[1].ret_deep
    /\ Deep(heap, calls[2].ret) = calls[2].ret_deep
    /\ Deep(heap, CallerOutput) = calls[1].input_deep

====
